---- MODULE Spec2Model ----
(***************************************************************************)
(* A state-machine model of water_tracker.py (class WaterTrackerApp and    *)
(* generate_bottle_images_in_memory).                                       *)
(*                                                                         *)
(* Text that the program inspects (the custom-amount entry, the sound      *)
(* path) is a sequence of one-character strings, so that int() and         *)
(* str.strip() are computed as Python computes them.  Images are functions *)
(* from pixel coordinates <<x, y>> to a grey value (mode "L") or to an     *)
(* <<r, g, b, a>> tuple (mode "RGBA").  The wall clock time.time() counts  *)
(* in units of 1/Hz second; the clock reads made within one handler see    *)
(* the same instant.  The Gaussian blur is not modelled: the extractor     *)
(* starts from the blurred luminance image.                                *)
(***************************************************************************)
EXTENDS Integers, Sequences, FiniteSets, TLC

(***************************************************************************)
(* Bounds of the model.                                                    *)
(***************************************************************************)
ImgW == 2
ImgH == 2
MaxTotal == 3300
Hz == 2
MaxLatency == 2
MaxSeconds == 125
MaxToggles == 3
TimerToggles == 2
ToggleWindow == 1
MaxDialog == 1

(***************************************************************************)
(* Program constants.                                                      *)
(***************************************************************************)
CAPACITY == 3000
QUICK_ADD == 150
THRESHOLD == 128
SECONDS_PER_MINUTE == 60
AFTER_MS == 1000
DEFAULT_INTERVAL == 1
FALLBACK_INTERVAL == 0
FALLBACK_TOTAL == 0

Min(a, b) == IF a <= b THEN a ELSE b
Max(a, b) == IF a >= b THEN a ELSE b

\* Python's int() on a quotient a/b of integers, b > 0: truncation toward zero.
TruncDiv(a, b) == IF a >= 0 THEN a \div b ELSE -((-a) \div b)

(***************************************************************************)
(* Text.                                                                   *)
(***************************************************************************)
DigitChars == <<"0", "1", "2", "3", "4", "5", "6", "7", "8", "9">>

IsSpace(c) == c \in {" ", "\t", "\n"}

IsDigit(c) == \E i \in 1..10 : DigitChars[i] = c

DigitVal(c) == (CHOOSE i \in 1..10 : DigitChars[i] = c) - 1

RECURSIVE LStrip(_)
LStrip(s) == IF s # <<>> /\ IsSpace(Head(s)) THEN LStrip(Tail(s)) ELSE s

RECURSIVE RStrip(_)
RStrip(s) ==
    IF s # <<>> /\ IsSpace(s[Len(s)]) THEN RStrip(SubSeq(s, 1, Len(s) - 1)) ELSE s

\* str.strip()
Strip(s) == RStrip(LStrip(s))

\* The digits-and-underscores body of an integer literal: non-empty, starts and
\* ends with a digit, no two underscores in a row.
WellFormedDigits(s) ==
    /\ s # <<>>
    /\ \A i \in 1..Len(s) : IsDigit(s[i]) \/ s[i] = "_"
    /\ IsDigit(s[1]) /\ IsDigit(s[Len(s)])
    /\ \A i \in 1..(Len(s) - 1) : ~(s[i] = "_" /\ s[i + 1] = "_")

RECURSIVE DigitsValue(_, _)
DigitsValue(s, acc) ==
    IF s = <<>> THEN acc
    ELSE IF Head(s) = "_" THEN DigitsValue(Tail(s), acc)
    ELSE DigitsValue(Tail(s), 10 * acc + DigitVal(Head(s)))

\* int(text): [ok |-> FALSE] stands for ValueError.
ParseInt(text) ==
    LET t == Strip(text)
        signed == t # <<>> /\ Head(t) \in {"+", "-"}
        body == IF signed THEN Tail(t) ELSE t
    IN  IF WellFormedDigits(body)
        THEN [ok |-> TRUE,
              value |-> IF signed /\ Head(t) = "-"
                        THEN -DigitsValue(body, 0) ELSE DigitsValue(body, 0)]
        ELSE [ok |-> FALSE, value |-> 0]

RECURSIVE LastSlash(_, _)
LastSlash(s, i) == IF i = 0 \/ s[i] = "/" THEN i ELSE LastSlash(s, i - 1)

\* os.path.basename
Basename(s) == SubSeq(s, LastSlash(s, Len(s)) + 1, Len(s))

(***************************************************************************)
(* Images.                                                                 *)
(***************************************************************************)
Pixels == (0..(ImgW - 1)) \X (0..(ImgH - 1))

TRANSPARENT == <<0, 0, 0, 0>>
GRAY == <<150, 150, 150, 255>>
WATER == <<0, 0, 255, 200>>

\* img.point(lambda p: 255 if p > threshold else 0)
Binarize(lum) == [p \in Pixels |-> IF lum[p] > THRESHOLD THEN 255 ELSE 0]

\* The polarity correction: invert when black pixels outnumber white ones.
CorrectPolarity(img) ==
    LET white_count == Cardinality({p \in Pixels : img[p] = 255})
        black_count == Cardinality({p \in Pixels : img[p] = 0})
    IN  IF black_count > white_count
        THEN [p \in Pixels |-> 255 - img[p]]
        ELSE img

\* The gray silhouette of the empty bottle, transparent outside.
EmptySprite(img) == [p \in Pixels |-> IF img[p] = 255 THEN GRAY ELSE TRANSPARENT]

\* generate_bottle_images_in_memory on the (blurred) luminance image lum.
GenerateBottleImages(lum) ==
    LET img == CorrectPolarity(Binarize(lum))
    IN  [mask |-> img, empty |-> EmptySprite(img)]

\* ratio = min(1.0, total / CAPACITY), as the numerator of a fraction over CAPACITY.
RatioNum(total) == Min(CAPACITY, total)

\* fill_height = int(h * ratio)
FillHeight(total) == TruncDiv(ImgH * RatioNum(total), CAPACITY)

\* draw.rectangle([0, h - fill_height, w, h]) on a transparent layer: both corners
\* are inclusive and the part outside the image is clipped.
DrawRectangle(x0, y0, x1, y1) ==
    [p \in Pixels |->
        IF x0 <= p[1] /\ p[1] <= x1 /\ y0 <= p[2] /\ p[2] <= y1
        THEN WATER ELSE TRANSPARENT]

\* fill_layer.putalpha(mask): the alpha band is replaced by the mask.
PutAlphaMutant(layer, mask) == layer
PutAlpha(layer, mask) ==
    [p \in Pixels |-> <<layer[p][1], layer[p][2], layer[p][3], mask[p]>>]

ShiftForDiv255(a) == ((a \div 256) + a) \div 256

\* Image.alpha_composite of one pixel: src over dst.
CompositePixel(dst, src) ==
    IF src[4] = 0 THEN dst
    ELSE LET blend == dst[4] * (255 - src[4])
             outa255 == src[4] * 255 + blend
             coef1 == (src[4] * 255 * 255 * 128) \div outa255
             coef2 == 255 * 128 - coef1
             ch(i) == ShiftForDiv255(src[i] * coef1 + dst[i] * coef2 + 128 * 128) \div 128
         IN  <<ch(1), ch(2), ch(3), ShiftForDiv255(outa255 + 128)>>

AlphaComposite(dst, src) == [p \in Pixels |-> CompositePixel(dst[p], src[p])]

\* The fill layer of update_filled_bottle, after putalpha.
FillLayer(total, mask) ==
    PutAlpha(DrawRectangle(0, ImgH - FillHeight(total), ImgW, ImgH), mask)

\* The image update_filled_bottle displays.
FilledBottle(total, mask, empty) == AlphaComposite(empty, FillLayer(total, mask))

(***************************************************************************)
(* The persisted state file.  kind is "missing" (no file), "malformed"     *)
(* (json.load or saved.get raises) or "object" (a JSON object holding the  *)
(* keys in has; a field whose key is absent is kept at a fixed filler).    *)
(***************************************************************************)
Keys == {"total_consumed", "custom_sound", "reminder_interval"}

MissingFile == [kind |-> "missing", has |-> {}, total |-> 0, sound |-> <<>>, interval |-> 0]

MalformedFile == [kind |-> "malformed", has |-> {}, total |-> 0, sound |-> <<>>, interval |-> 0]

ObjectFile(has, total, sound, interval) ==
    [kind |-> "object", has |-> has,
     total |-> IF "total_consumed" \in has THEN total ELSE 0,
     sound |-> IF "custom_sound" \in has THEN sound ELSE <<>>,
     interval |-> IF "reminder_interval" \in has THEN interval ELSE 0]

\* The values __init__ sets before load_data runs.
Defaults == [total |-> 0, sound |-> <<>>, interval |-> DEFAULT_INTERVAL]

\* load_data: the (total_consumed, custom_sound_path, reminder_minutes_var) it
\* leaves, given the file.  The bare except swallows every failure.
LoadMutant(f) ==
    IF f.kind = "object"
    THEN [total |-> IF "total_consumed" \in f.has THEN f.total ELSE FALLBACK_TOTAL,
          sound |-> IF "custom_sound" \in f.has THEN f.sound ELSE <<>>,
          interval |-> IF "reminder_interval" \in f.has THEN f.interval ELSE FALLBACK_INTERVAL]
    ELSE [total |-> FALLBACK_TOTAL, sound |-> <<>>, interval |-> FALLBACK_INTERVAL]
Load(f) ==
    IF f.kind = "object"
    THEN [total |-> IF "total_consumed" \in f.has THEN f.total ELSE FALLBACK_TOTAL,
          sound |-> IF "custom_sound" \in f.has THEN f.sound ELSE <<>>,
          interval |-> IF "reminder_interval" \in f.has THEN f.interval ELSE FALLBACK_INTERVAL]
    ELSE Defaults

\* The JSON object save_data builds.
SaveData(total, sound, interval) == ObjectFile(Keys, total, Strip(sound), interval)

\* The file after save_data: the write succeeds, open() fails (file untouched),
\* or the write fails after open() truncated the file.  Nothing is raised.
WriteOutcomes == {"ok", "open_failed", "write_failed"}

FileAfterSave(old, data, outcome) ==
    CASE outcome = "ok" -> data
      [] outcome = "open_failed" -> old
      [] outcome = "write_failed" -> MalformedFile

(***************************************************************************)
(* Inputs.                                                                 *)
(***************************************************************************)
\* Luminance values on either side of the threshold.
Lums == {THRESHOLD, THRESHOLD + 1}

AllSources == [Pixels -> Lums]

\* A bright bottle in the left column on a dark background.
ColumnSource == [p \in Pixels |-> IF p[1] = 0 THEN THRESHOLD + 1 ELSE THRESHOLD]

InvalidEntries ==
    { <<"a", "b", "c">>, <<"0">>, <<"-", "5">>, <<>>, <<"1", ".", "5">> }

ValidEntries ==
    { <<"1", "5", "0", "0">>, <<" ", "3", "0", "0">>, <<"+", "1", "5", "0">> }

CustomEntries == InvalidEntries \cup ValidEntries

SoundChoices == { <<"/", "d", "/", "a">>, <<"/", "b", " ">> }

IntervalChoices == {1, 2}

\* The value the spinbox is turned to while the reminder is watched.
SettingsIntervals == {2}

FileTotals == {-1800, 3000}

FileSounds == { <<"/", "d", "/", "a">> }

FileIntervals == {-2}

AllFiles ==
    {MissingFile, MalformedFile} \cup
    {ObjectFile(h, t, s, i) : h \in SUBSET Keys, t \in FileTotals,
                              s \in FileSounds, i \in FileIntervals}

FewFiles == {MissingFile, ObjectFile(Keys, -1800, <<>>, 1)}

\* A state file with a custom sound and interval 1.
CadenceFiles == {ObjectFile(Keys, 3000, <<"/", "d", "/", "a">>, 1)}

\* State files without a custom sound: no reminder_interval (read as 0), and a
\* negative one.
SettingsFiles ==
    {ObjectFile(Keys \ {"reminder_interval"}, 3000, <<>>, 0),
     ObjectFile(Keys, 3000, <<>>, -2)}

(***************************************************************************)
(* Widget texts.                                                           *)
(***************************************************************************)
StatusText(total) == [prefix |-> "Consumed: ", value |-> total, suffix |-> " ml"]

IdleText == [text |-> "No reminder active.", mins |-> 0, secs |-> 0]

CountdownText(time_left) ==
    [text |-> "Next reminder in: ", mins |-> time_left \div 60, secs |-> time_left % 60]

\* update_sound_label
SoundLabel(sound) == IF sound # <<>> THEN Basename(sound) ELSE <<"No sound selected">>

POSITIVE_WARNING == "Please enter a positive integer."
INTEGER_WARNING == "Please enter a valid integer."
RESET_QUESTION == "Reset all water consumption to 0?"
SOUND_WARNING == "Could not play custom sound"

VARIABLES
    total_consumed,        \* self.total_consumed
    custom_sound_path,     \* self.custom_sound_path
    minimize_to_tray,      \* self.minimize_to_tray
    reminder_running,      \* self.reminder_running
    reminder_minutes_var,  \* self.reminder_minutes_var
    next_reminder_time,    \* self.next_reminder_time
    bottle_image,          \* the image at bottle_path, as img is after the blur
    bottle_mask,           \* self.bottle_mask
    empty_bottle,          \* self.empty_bottle
    tk_bottle,             \* the image bottle_label shows
    status_label,          \* the text of status_label
    custom_entry,          \* the text of custom_entry
    countdown_label,       \* the text of countdown_label
    reminder_button,       \* the text of reminder_button
    sound_label,           \* the text of sound_label
    last_dialog,           \* the message of the last messagebox shown
    file,                  \* water_data.json
    last_save,             \* what the last save_data call held in memory, and its outcome
    window,                \* "normal", "withdrawn", or "none" once root is destroyed
    tray_icon,             \* self.tray_icon: "None" or "icon"
    tray_pc,               \* where the tray thread is
    writer,                \* who made the last change to shared state: "main" (a
                           \* main-loop handler), "tray_setup" or "tray_callback"
                           \* (the tray thread, in setup_tray_icon or in a menu callback)
    now,                   \* time.time()
    pending,               \* due times of the root.after callbacks not yet delivered
    fire_log,              \* the reminder fires since the last start
    in_warning,            \* update_countdown calls waiting in messagebox.showwarning
    toggles                \* toggle_reminder calls so far

consumptionVars == <<total_consumed, status_label, tk_bottle, custom_entry, last_dialog>>
configVars == <<custom_sound_path, sound_label, reminder_minutes_var, minimize_to_tray>>
assetVars == <<bottle_image, bottle_mask, empty_bottle>>
storeVars == <<file, last_save>>
trayVars == <<window, tray_icon, tray_pc>>
timerVars == <<reminder_running, next_reminder_time, countdown_label, reminder_button,
               pending, fire_log, in_warning, toggles>>

vars == <<consumptionVars, configVars, assetVars, storeVars, trayVars, timerVars,
          writer, now>>

\* fire_log: start and start_interval are the clock and max(1, interval) at the
\* last start; count the fires since (the calls of play_reminder_sound) and failures
\* those in which playsound raised; at and sched the clock and the next_reminder_time
\* in force at the last fire; alert what was heard of it, interval the
\* max(1, interval) used to reschedule after it; ideal the time a schedule without
\* drift puts that fire at (the start plus the intervals used so far), next_ideal
\* that of the fire to come.
NoFires == [start |-> 0, start_interval |-> 0, count |-> 0, failures |-> 0, at |-> 0,
            sched |-> 0, ideal |-> 0, next_ideal |-> 0, interval |-> 0, alert |-> "none"]

NoSave == [ok |-> FALSE, total |-> 0, sound |-> <<>>, interval |-> 0]

\* draw.rectangle with y0 > y1 (a negative fill_height): depending on the Pillow
\* version it raises ValueError or draws nothing.
RectangleRaises(total) == IF FillHeight(total) < 0 THEN BOOLEAN ELSE {FALSE}

\* bottle_label before any image was given to it.
NoImage == [p \in Pixels |-> TRANSPARENT]

\* The state __init__ builds from the bottle image and the state file, up to the
\* point where mainloop() starts; raised tells whether update_filled_bottle raised,
\* which ends the process before the window is shown.
Constructed(lum, f, raised) ==
    LET images == GenerateBottleImages(lum)
        loaded == Load(f)
    IN  [total_consumed |-> loaded.total,
         custom_sound_path |-> loaded.sound,
         minimize_to_tray |-> FALSE,
         reminder_running |-> FALSE,
         reminder_minutes_var |-> loaded.interval,
         next_reminder_time |-> 0,
         bottle_mask |-> images.mask,
         empty_bottle |-> images.empty,
         tk_bottle |-> IF raised THEN NoImage
                       ELSE FilledBottle(loaded.total, images.mask, images.empty),
         window |-> IF raised THEN "none" ELSE "normal",
         status_label |-> StatusText(loaded.total),
         custom_entry |-> <<>>,
         countdown_label |-> IdleText,
         reminder_button |-> "Start Reminder",
         sound_label |-> SoundLabel(loaded.sound),
         tray_icon |-> "None"]

InitWith(sources, files) ==
    \E lum \in sources, f \in files :
      \E raised \in RectangleRaises(Load(f).total) :
        LET s == Constructed(lum, f, raised)
        IN  /\ total_consumed = s.total_consumed
            /\ custom_sound_path = s.custom_sound_path
            /\ minimize_to_tray = s.minimize_to_tray
            /\ reminder_running = s.reminder_running
            /\ reminder_minutes_var = s.reminder_minutes_var
            /\ next_reminder_time = s.next_reminder_time
            /\ bottle_image = lum
            /\ bottle_mask = s.bottle_mask
            /\ empty_bottle = s.empty_bottle
            /\ tk_bottle = s.tk_bottle
            /\ status_label = s.status_label
            /\ custom_entry = s.custom_entry
            /\ countdown_label = s.countdown_label
            /\ reminder_button = s.reminder_button
            /\ sound_label = s.sound_label
            /\ tray_icon = s.tray_icon
            /\ last_dialog = "none"
            /\ file = f
            /\ last_save = NoSave
            /\ window = s.window
            /\ tray_pc = "none"
            /\ writer = "main"
            /\ now = 0
            /\ pending = <<>>
            /\ fire_log = NoFires
            /\ in_warning = 0
            /\ toggles = 0

Init == InitWith(AllSources, FewFiles)

\* The main window takes input: it is shown and no modal warning is open.
Responsive == window = "normal" /\ in_warning = 0

\* update_filled_bottle: the image shown afterwards; when it raised, the old one.
Redraw(total, raised) ==
    tk_bottle' = IF raised THEN tk_bottle
                 ELSE FilledBottle(total, bottle_mask, empty_bottle)

add_150 ==
    /\ Responsive
    /\ total_consumed + QUICK_ADD <= MaxTotal
    /\ total_consumed' = total_consumed + QUICK_ADD
    /\ status_label' = StatusText(total_consumed')
    /\ \E raised \in RectangleRaises(total_consumed') : Redraw(total_consumed', raised)
    /\ writer' = "main"
    /\ UNCHANGED <<custom_entry, last_dialog, configVars, assetVars, storeVars,
                   trayVars, timerVars, now>>

\* add_custom with text typed into custom_entry.  A ValueError raised by
\* update_filled_bottle is caught by the same except clause as int()'s.
add_custom_mutant(text) ==
    LET amount == ParseInt(text)
    IN  /\ Responsive
        /\ custom_entry' = text
        /\ IF ~amount.ok
           THEN /\ last_dialog' = INTEGER_WARNING
                /\ UNCHANGED <<total_consumed, status_label, tk_bottle>>
           ELSE /\ total_consumed + amount.value <= MaxTotal
                /\ total_consumed' = total_consumed + amount.value
                /\ status_label' = StatusText(total_consumed')
                /\ Redraw(total_consumed', FALSE)
                /\ UNCHANGED last_dialog
        /\ writer' = "main"
        /\ UNCHANGED <<configVars, assetVars, storeVars, trayVars, timerVars, now>>
add_custom(text) ==
    LET amount == ParseInt(text)
    IN  /\ Responsive
        /\ IF ~amount.ok
           THEN /\ last_dialog' = INTEGER_WARNING
                /\ custom_entry' = text
                /\ UNCHANGED <<total_consumed, status_label, tk_bottle>>
           ELSE IF amount.value > 0
           THEN /\ total_consumed + amount.value <= MaxTotal
                /\ total_consumed' = total_consumed + amount.value
                /\ status_label' = StatusText(total_consumed')
                /\ \E raised \in RectangleRaises(total_consumed') :
                     /\ Redraw(total_consumed', raised)
                     /\ last_dialog' = IF raised THEN INTEGER_WARNING ELSE last_dialog
                     /\ custom_entry' = IF raised THEN text ELSE <<>>
           ELSE /\ last_dialog' = POSITIVE_WARNING
                /\ custom_entry' = text
                /\ UNCHANGED <<total_consumed, status_label, tk_bottle>>
        /\ writer' = "main"
        /\ UNCHANGED <<configVars, assetVars, storeVars, trayVars, timerVars, now>>

\* reset_consumption, with the user's answer to the askyesno dialog.
reset_consumption_mutant(yes) ==
    /\ Responsive
    /\ last_dialog' = RESET_QUESTION
    /\ IF yes
       THEN /\ total_consumed' = 0
            /\ status_label' = StatusText(total_consumed')
            /\ UNCHANGED tk_bottle
       ELSE UNCHANGED <<total_consumed, status_label, tk_bottle>>
    /\ writer' = "main"
    /\ UNCHANGED <<custom_entry, configVars, assetVars, storeVars, trayVars,
                   timerVars, now>>
reset_consumption(yes) ==
    /\ Responsive
    /\ last_dialog' = RESET_QUESTION
    /\ IF yes
       THEN /\ total_consumed' = 0
            /\ status_label' = StatusText(total_consumed')
            /\ Redraw(total_consumed', FALSE)
       ELSE UNCHANGED <<total_consumed, status_label, tk_bottle>>
    /\ writer' = "main"
    /\ UNCHANGED <<custom_entry, configVars, assetVars, storeVars, trayVars,
                   timerVars, now>>

\* choose_sound_file, with the path the dialog returns (empty when cancelled).
choose_sound_file(path) ==
    /\ Responsive
    /\ IF path # <<>>
       THEN /\ custom_sound_path' = path
            /\ sound_label' = SoundLabel(path)
       ELSE UNCHANGED <<custom_sound_path, sound_label>>
    /\ writer' = "main"
    /\ UNCHANGED <<reminder_minutes_var, minimize_to_tray, consumptionVars, assetVars,
                   storeVars, trayVars, timerVars, now>>

\* The spinbox writes its value to reminder_minutes_var.
set_interval_mutant(n) ==
    /\ Responsive
    /\ reminder_minutes_var # n
    /\ reminder_minutes_var' = n
    /\ next_reminder_time' = IF reminder_running THEN now + Max(1, n) * 60 * Hz
                              ELSE next_reminder_time
    /\ writer' = "main"
    /\ UNCHANGED <<custom_sound_path, sound_label, minimize_to_tray, consumptionVars,
                   assetVars, storeVars, trayVars, reminder_running, countdown_label,
                   reminder_button, pending, fire_log, in_warning, toggles, now>>
set_interval(n) ==
    /\ Responsive
    /\ reminder_minutes_var # n
    /\ reminder_minutes_var' = n
    /\ writer' = "main"
    /\ UNCHANGED <<custom_sound_path, sound_label, minimize_to_tray, consumptionVars,
                   assetVars, storeVars, trayVars, timerVars, now>>

\* The checkbutton flips minimize_to_tray.
toggle_minimize ==
    /\ Responsive
    /\ minimize_to_tray' = ~minimize_to_tray
    /\ writer' = "main"
    /\ UNCHANGED <<custom_sound_path, sound_label, reminder_minutes_var, consumptionVars,
                   assetVars, storeVars, trayVars, timerVars, now>>

\* save_data, with the outcome of the write.
save_data(outcome) ==
    /\ file' = FileAfterSave(file,
                   SaveData(total_consumed, custom_sound_path, reminder_minutes_var),
                   outcome)
    /\ last_save' = [ok |-> outcome = "ok", total |-> total_consumed,
                     sound |-> custom_sound_path, interval |-> reminder_minutes_var]

\* on_closing: save, then hide_window (which starts the tray thread when there is
\* no tray icon) or cleanup_tray_icon and root.destroy().
on_closing ==
    /\ Responsive
    /\ \E outcome \in WriteOutcomes : save_data(outcome)
    /\ IF minimize_to_tray
       THEN /\ window' = "withdrawn"
            /\ tray_pc' = IF tray_icon = "None" THEN "setup" ELSE tray_pc
            /\ UNCHANGED <<tray_icon, pending>>
       ELSE /\ tray_icon' = "None"
            /\ window' = "none"
            /\ pending' = <<>>
            /\ UNCHANGED tray_pc
    /\ writer' = "main"
    /\ UNCHANGED <<consumptionVars, configVars, assetVars, reminder_running,
                   next_reminder_time, countdown_label, reminder_button, fire_log,
                   in_warning, toggles, now>>

\* setup_tray_icon, on the tray thread: Image.open fails (the thread ends), or the
\* icon is made and stored in self.tray_icon and its loop runs.
setup_tray_icon(icon_found) ==
    /\ tray_pc = "setup"
    /\ IF icon_found
       THEN /\ tray_icon' = "icon"
            /\ tray_pc' = "running"
            /\ writer' = "tray_setup"
       ELSE /\ tray_pc' = "none"
            /\ UNCHANGED <<tray_icon, writer>>
    /\ UNCHANGED <<window, consumptionVars, configVars, assetVars, storeVars,
                   timerVars, now>>

\* show_window, called by the tray menu on the tray thread: lines 333-335.
show_window_stop ==
    /\ tray_pc = "running"
    /\ tray_icon' = "None"
    /\ tray_pc' = "show_deiconify"
    /\ writer' = "tray_callback"
    /\ UNCHANGED <<window, consumptionVars, configVars, assetVars, storeVars,
                   timerVars, now>>

\* show_window: line 336.
show_window_deiconify ==
    /\ tray_pc = "show_deiconify"
    /\ window' = IF window = "none" THEN window ELSE "normal"
    /\ tray_pc' = "none"
    /\ writer' = "tray_callback"
    /\ UNCHANGED <<tray_icon, consumptionVars, configVars, assetVars, storeVars,
                   timerVars, now>>

\* exit_app, called by the tray menu on the tray thread: line 339.
exit_app_save ==
    /\ tray_pc = "running"
    /\ \E outcome \in WriteOutcomes : save_data(outcome)
    /\ tray_pc' = "exit_cleanup"
    /\ writer' = "tray_callback"
    /\ UNCHANGED <<window, tray_icon, consumptionVars, configVars, assetVars,
                   timerVars, now>>

\* exit_app: line 340.
exit_app_cleanup ==
    /\ tray_pc = "exit_cleanup"
    /\ tray_icon' = "None"
    /\ tray_pc' = "exit_destroy"
    /\ writer' = "tray_callback"
    /\ UNCHANGED <<window, consumptionVars, configVars, assetVars, storeVars,
                   timerVars, now>>

\* exit_app: line 341.
exit_app_destroy ==
    /\ tray_pc = "exit_destroy"
    /\ window' = "none"
    /\ tray_pc' = "none"
    /\ pending' = <<>>
    /\ in_warning' = 0
    /\ writer' = "tray_callback"
    /\ UNCHANGED <<tray_icon, consumptionVars, configVars, assetVars, storeVars,
                   reminder_running, next_reminder_time, countdown_label,
                   reminder_button, fire_log, toggles, now>>

\* The program is started again after it ended: __init__ with the same bottle
\* image (whose mask it regenerates) and the state file as it is.
Launch ==
    /\ window = "none"
    /\ tray_pc = "none"
    /\ \E raised \in RectangleRaises(Load(file).total) :
         LET loaded == Load(file)
         IN  /\ total_consumed' = loaded.total
             /\ custom_sound_path' = loaded.sound
             /\ reminder_minutes_var' = loaded.interval
             /\ tk_bottle' = IF raised THEN NoImage
                             ELSE FilledBottle(loaded.total, bottle_mask, empty_bottle)
             /\ window' = IF raised THEN "none" ELSE "normal"
             /\ status_label' = StatusText(loaded.total)
             /\ sound_label' = SoundLabel(loaded.sound)
    /\ minimize_to_tray' = FALSE
    /\ reminder_running' = FALSE
    /\ next_reminder_time' = 0
    /\ custom_entry' = <<>>
    /\ countdown_label' = IdleText
    /\ reminder_button' = "Start Reminder"
    /\ tray_icon' = "None"
    /\ pending' = <<>>
    /\ in_warning' = 0
    /\ writer' = "main"
    /\ UNCHANGED <<last_dialog, assetVars, storeVars, tray_pc, fire_log, toggles, now>>

(***************************************************************************)
(* The reminder timer.                                                     *)
(***************************************************************************)
\* interval * 60 seconds, with interval = max(1, reminder_minutes_var), in clock units.
IntervalSpanMutant(minutes_var) == Max(1, minutes_var) * Hz
IntervalSpanUnclamped(minutes_var) == minutes_var * SECONDS_PER_MINUTE * Hz
IntervalSpan(minutes_var) == Max(1, minutes_var) * SECONDS_PER_MINUTE * Hz

\* int(next_reminder_time - time.time()): whole seconds, truncated toward zero.
TimeLeft(next, t) == TruncDiv(next - t, Hz)

\* The test that makes update_countdown fire the reminder.
ReminderDueMutant(next, t) == TimeLeft(next, t) <= 1
ReminderDue(next, t) == TimeLeft(next, t) <= 0

\* root.after(1000, ...): the earliest time the callback can run.
AfterDue(t) == t + (AFTER_MS * Hz) \div 1000

\* play_reminder_sound up to its return, or up to the warning it opens when
\* playsound raised: what has been heard, the dialog shown, and whether the call
\* now waits in messagebox.showwarning.
PlayReminderSound(sound, playsound_raised) ==
    IF Strip(sound) # <<>>
    THEN IF playsound_raised
         THEN [alert |-> "none", dialog |-> SOUND_WARNING, waits |-> TRUE]
         ELSE [alert |-> "sound", dialog |-> last_dialog, waits |-> FALSE]
    ELSE [alert |-> "bell", dialog |-> last_dialog, waits |-> FALSE]

PlaysoundOutcomes == IF Strip(custom_sound_path) # <<>> THEN BOOLEAN ELSE {FALSE}

\* update_countdown once play_reminder_sound has returned (lines 285-293), log being
\* the record of the fire and alert what was heard of it.
CountdownTail(queue, log, alert) ==
    /\ next_reminder_time' = now + IntervalSpan(reminder_minutes_var)
    /\ fire_log' = [log EXCEPT !.next_ideal = @ + IntervalSpan(reminder_minutes_var),
                               !.interval = Max(1, reminder_minutes_var),
                               !.alert = alert]
    /\ countdown_label' = CountdownText(TimeLeft(next_reminder_time', now))
    /\ pending' = Append(queue, AfterDue(now))

\* The body of update_countdown past its reminder_running test, at time now.  When
\* playsound raised, the call stays in showwarning, whose event loop goes on
\* delivering callbacks, until the warning is dismissed.
CountdownBody(queue) ==
    IF ReminderDue(next_reminder_time, now)
    THEN \E playsound_raised \in PlaysoundOutcomes :
           LET played == PlayReminderSound(custom_sound_path, playsound_raised)
               fired == [fire_log EXCEPT
                           !.count = @ + 1,
                           !.failures = @ + (IF playsound_raised THEN 1 ELSE 0),
                           !.at = now,
                           !.sched = next_reminder_time,
                           !.ideal = fire_log.next_ideal,
                           !.alert = played.alert]
           IN  /\ last_dialog' = played.dialog
               /\ IF played.waits
                  THEN /\ in_warning' = in_warning + 1
                       /\ fire_log' = fired
                       /\ pending' = queue
                       /\ UNCHANGED <<next_reminder_time, countdown_label>>
                  ELSE /\ CountdownTail(queue, fired, played.alert)
                       /\ UNCHANGED in_warning
    ELSE /\ countdown_label' = CountdownText(TimeLeft(next_reminder_time, now))
         /\ pending' = Append(queue, AfterDue(now))
         /\ UNCHANGED <<last_dialog, next_reminder_time, fire_log, in_warning>>

\* toggle_reminder: stop, or start and run update_countdown once.
toggle_reminder ==
    /\ Responsive
    /\ toggles < MaxToggles
    /\ toggles' = toggles + 1
    /\ IF reminder_running
       THEN /\ reminder_running' = FALSE
            /\ reminder_button' = "Start Reminder"
            /\ countdown_label' = IdleText
            /\ UNCHANGED <<next_reminder_time, pending, fire_log, last_dialog>>
       ELSE /\ reminder_running' = TRUE
            /\ reminder_button' = "Stop Reminder"
            \* update_countdown(): time_left is the whole interval, so nothing fires
            /\ next_reminder_time' = now + IntervalSpan(reminder_minutes_var)
            /\ fire_log' = [NoFires EXCEPT
                              !.start = now,
                              !.start_interval = Max(1, reminder_minutes_var),
                              !.next_ideal = now + IntervalSpan(reminder_minutes_var)]
            /\ countdown_label' = CountdownText(TimeLeft(next_reminder_time', now))
            /\ pending' = Append(pending, AfterDue(now))
            /\ UNCHANGED last_dialog
    /\ writer' = "main"
    /\ UNCHANGED <<total_consumed, status_label, tk_bottle, custom_entry, configVars,
                   assetVars, storeVars, trayVars, in_warning, now>>

\* The event loop delivers the oldest due root.after callback: update_countdown.
update_countdown ==
    /\ window # "none"
    /\ pending # <<>>
    /\ Head(pending) <= now
    /\ IF reminder_running
       THEN CountdownBody(Tail(pending))
       ELSE /\ pending' = Tail(pending)
            /\ UNCHANGED <<last_dialog, next_reminder_time, fire_log, countdown_label,
                           in_warning>>
    /\ writer' = "main"
    /\ UNCHANGED <<total_consumed, status_label, tk_bottle, custom_entry, configVars,
                   assetVars, storeVars, trayVars, reminder_running, reminder_button,
                   toggles, now>>

\* The user dismisses the sound warning: the innermost waiting update_countdown
\* rings the bell (line 303) and goes on from line 285.
dismiss_warning_mutant ==
    /\ window # "none"
    /\ in_warning > 0
    /\ in_warning' = in_warning - 1
    /\ writer' = "main"
    /\ UNCHANGED <<consumptionVars, configVars, assetVars, storeVars, trayVars,
                   reminder_running, next_reminder_time, countdown_label,
                   reminder_button, pending, fire_log, toggles, now>>
dismiss_warning ==
    /\ window # "none"
    /\ in_warning > 0
    /\ in_warning' = in_warning - 1
    /\ CountdownTail(pending, fire_log, "bell")
    /\ writer' = "main"
    /\ UNCHANGED <<consumptionVars, configVars, assetVars, storeVars, trayVars,
                   reminder_running, reminder_button, toggles, now>>

\* The clock advances by one unit.  A due callback is delivered at most
\* MaxLatency units late and a sound warning is dismissed within MaxDialog units;
\* with nothing running and nothing pending the clock is not watched.
Advance ==
    /\ window # "none"
    /\ now < MaxSeconds * Hz
    /\ reminder_running \/ pending # <<>>
    /\ pending # <<>> => now + 1 <= Head(pending) + MaxLatency
    /\ in_warning > 0 => now + 1 <= fire_log.at + MaxDialog
    /\ now' = now + 1
    /\ UNCHANGED <<consumptionVars, configVars, assetVars, storeVars, trayVars,
                   timerVars, writer>>

(***************************************************************************)
(* The specifications.                                                     *)
(***************************************************************************)
\* Consumption and rendering, for every bottle image.
Next ==
    \/ add_150
    \/ \E text \in CustomEntries : add_custom(text)
    \/ \E yes \in BOOLEAN : reset_consumption(yes)

Spec == Init /\ [][Next]_vars

\* Persistence: the settings, closing the window and starting again.
StoreEntries == { <<"1", "5", "0", "0">> }

InitStore == InitWith({ColumnSource}, AllFiles)

NextStore ==
    \/ \E text \in StoreEntries : add_custom(text)
    \/ reset_consumption(TRUE)
    \/ \E path \in SoundChoices \cup {<<>>} : choose_sound_file(path)
    \/ \E n \in IntervalChoices : set_interval(n)
    \/ on_closing
    \/ Launch

SpecStore == InitStore /\ [][NextStore]_vars

\* The reminder timer against the clock: one start and one stop, no custom sound.
InitTimer == InitWith({ColumnSource}, {MissingFile})

NextTimer ==
    \/ (toggles < TimerToggles /\ toggle_reminder)
    \/ update_countdown
    \/ Advance

SpecTimer == InitTimer /\ [][NextTimer]_vars

\* The tray icon and its thread beside the main loop.
InitTray == InitWith({ColumnSource}, {MissingFile})

NextTray ==
    \/ add_150
    \/ toggle_minimize
    \/ on_closing
    \/ \E icon_found \in BOOLEAN : setup_tray_icon(icon_found)
    \/ show_window_stop
    \/ show_window_deiconify
    \/ exit_app_save
    \/ exit_app_cleanup
    \/ exit_app_destroy
    \/ Launch

SpecTray == InitTray /\ [][NextTray]_vars

\* Ending the program: the settings, closing the window and the tray menu.
InitExit == InitWith({ColumnSource}, {MissingFile})

NextExit ==
    \/ \E text \in StoreEntries : add_custom(text)
    \/ reset_consumption(TRUE)
    \/ \E path \in SoundChoices : choose_sound_file(path)
    \/ \E n \in IntervalChoices : set_interval(n)
    \/ toggle_minimize
    \/ on_closing
    \/ \E icon_found \in BOOLEAN : setup_tray_icon(icon_found)
    \/ show_window_stop
    \/ show_window_deiconify
    \/ exit_app_save
    \/ exit_app_cleanup
    \/ exit_app_destroy

SpecExit == InitExit /\ [][NextExit]_vars

\* The reminder timer and the interval setting: the reminder is toggled during the
\* first ToggleWindow seconds, the interval is changed at any time.
InitSettings == InitWith({ColumnSource}, SettingsFiles)

NextSettings ==
    \/ (now <= ToggleWindow * Hz /\ toggle_reminder)
    \/ \E n \in SettingsIntervals : set_interval(n)
    \/ update_countdown
    \/ Advance

SpecSettings == InitSettings /\ [][NextSettings]_vars

\* The reminder timer with a custom sound that may fail to play: the reminder is
\* toggled during the first ToggleWindow seconds.
InitCadence == InitWith({ColumnSource}, CadenceFiles)

NextCadence ==
    \/ (now <= ToggleWindow * Hz /\ toggle_reminder)
    \/ update_countdown
    \/ dismiss_warning
    \/ Advance

SpecCadence == InitCadence /\ [][NextCadence]_vars

(***************************************************************************)
(* Properties.                                                             *)
(***************************************************************************)
Abs(x) == IF x >= 0 THEN x ELSE -x

\* C1: add_custom with an entry that is not an integer, or is an integer <= 0,
\* leaves total_consumed, the status text and the displayed bottle as they were.
InvalidCustomRejected ==
    [][\A text \in InvalidEntries :
         add_custom(text) => UNCHANGED <<total_consumed, status_label, tk_bottle>>]_vars

WitnessInvalidRejected ==
    /\ last_dialog = POSITIVE_WARNING
    /\ custom_entry = <<"-", "5">>
    /\ total_consumed = QUICK_ADD

\* C2: whenever the reminder is stopped, no update_countdown callback is pending
\* and the countdown shows the idle message.
StopClearsContinuation ==
    ~reminder_running => (pending = <<>> /\ countdown_label = IdleText)

\* C3: the first reminder after a start at T with interval 1 fires no earlier than
\* T + 59 s and no later than T + 61 s (ticks being delivered at most MaxLatency
\* late).
FirstFireWithinWindow ==
    (fire_log.count = 1 /\ fire_log.start_interval = 1) =>
        /\ fire_log.at >= fire_log.start + 59 * Hz
        /\ fire_log.at <= fire_log.start + 61 * Hz

WitnessFirstFire ==
    /\ fire_log.count = 1
    /\ fire_log.start_interval = 1
    /\ reminder_running
    /\ fire_log.at < fire_log.start + 60 * Hz

\* C4 as claimed: the k-th fire is within 1 s of T + k * 60 s, for every k.
NoDriftAcrossCycles ==
    fire_log.count >= 1 => Abs(fire_log.at - fire_log.ideal) <= Hz

\* C4 as amended: every fire is within 1 s of the next_reminder_time that was
\* scheduled, the next one is scheduled at the clock reading of the fire plus
\* interval * 60 s, and the k-th fire is within k s of T + k * 60 s.
FireFollowsSchedule ==
    fire_log.count >= 1 =>
        /\ Abs(fire_log.at - fire_log.sched) <= Hz
        /\ next_reminder_time = fire_log.at + fire_log.interval * 60 * Hz
        /\ Abs(fire_log.at - fire_log.ideal) <= fire_log.count * Hz

WitnessDrift == fire_log.count = 2 /\ Abs(fire_log.at - fire_log.ideal) > Hz

\* C5: shared state is never changed by a tray menu callback running on the tray
\* thread, and the tray thread is never part-way through such a callback.
TrayCallbacksMarshaled ==
    /\ writer # "tray_callback"
    /\ tray_pc \notin {"show_deiconify", "exit_cleanup", "exit_destroy"}

\* C6: a start that follows a successful save finds the triple that was in memory
\* when it was saved.
SaveLoadRoundTrip ==
    [][(Launch /\ last_save.ok) =>
         /\ total_consumed' = last_save.total
         /\ custom_sound_path' = last_save.sound
         /\ reminder_minutes_var' = last_save.interval]_vars

\* C7 as claimed: a start on a missing or malformed file leaves total 0, sound ""
\* and interval 0, and on an object leaves 0, "" or 0 for each missing key.
LoadFailureGivesZeroInterval ==
    [][Launch =>
         /\ file.kind # "object" =>
              total_consumed' = 0 /\ custom_sound_path' = <<>> /\ reminder_minutes_var' = 0
         /\ (file.kind = "object" /\ "total_consumed" \notin file.has) => total_consumed' = 0
         /\ (file.kind = "object" /\ "custom_sound" \notin file.has) =>
              custom_sound_path' = <<>>
         /\ (file.kind = "object" /\ "reminder_interval" \notin file.has) =>
              reminder_minutes_var' = 0]_vars

\* C7 as amended: a start on a missing or malformed file leaves total 0, sound ""
\* and the constructor's interval 1; on an object it leaves 0, "" or 0 for each
\* missing key.
LoadFailureDefaults ==
    [][Launch =>
         /\ file.kind # "object" =>
              total_consumed' = 0 /\ custom_sound_path' = <<>> /\ reminder_minutes_var' = 1
         /\ (file.kind = "object" /\ "total_consumed" \notin file.has) => total_consumed' = 0
         /\ (file.kind = "object" /\ "custom_sound" \notin file.has) =>
              custom_sound_path' = <<>>
         /\ (file.kind = "object" /\ "reminder_interval" \notin file.has) =>
              reminder_minutes_var' = 0]_vars

WitnessLoadFailure ==
    /\ file.kind = "malformed"
    /\ last_save # NoSave
    /\ window = "normal"
    /\ total_consumed = 0 /\ custom_sound_path = <<>> /\ reminder_minutes_var = 1

\* C8: with total_consumed = 0 the displayed image is the empty-bottle sprite.
ZeroTotalShowsEmptySprite ==
    (window = "normal" /\ total_consumed = 0) => tk_bottle = empty_bottle

\* C9: at every pixel the mask marks as background the displayed image is the
\* empty sprite's (transparent) pixel.
FillStaysInsideMask ==
    \A p \in Pixels : bottle_mask[p] = 0 => tk_bottle[p] = empty_bottle[p]

WitnessFillBesideMask ==
    /\ window = "normal"
    /\ FillHeight(total_consumed) > 0
    /\ FillHeight(total_consumed) < ImgH
    /\ \E p \in Pixels : bottle_mask[p] = 0 /\ p[2] >= ImgH - FillHeight(total_consumed)

\* C10: total_consumed is never negative and the fill ratio is in [0, 1].
TotalNonNegativeRatioInUnit ==
    /\ total_consumed >= 0
    /\ RatioNum(total_consumed) >= 0
    /\ RatioNum(total_consumed) <= CAPACITY

\* C11: when one class of the thresholded image is the strict, non-empty minority
\* (the bottle, bright or dark), the mask is 255 on exactly that class and 0 on the
\* rest (the background).
MinorityBottleIsWhite ==
    LET img == Binarize(bottle_image)
        white == {p \in Pixels : img[p] = 255}
        black == {p \in Pixels : img[p] = 0}
        bottle == IF Cardinality(white) < Cardinality(black) THEN white ELSE black
    IN  (Cardinality(white) # Cardinality(black) /\ bottle # {}) =>
            bottle_mask = [p \in Pixels |-> IF p \in bottle THEN 255 ELSE 0]

\* The triple save_data is to persist.
InMemory ==
    [total |-> total_consumed, sound |-> custom_sound_path,
     interval |-> reminder_minutes_var]

\* C12: a close with minimize-to-tray off and the tray menu's Exit end the program
\* after a save, and when that save's write succeeded the file then holds the triple
\* in memory; a close with minimize-to-tray on saves likewise and hides the window.
TerminationPersistsState ==
    [][/\ (((on_closing /\ ~minimize_to_tray) \/ exit_app_destroy) /\ last_save'.ok) =>
            (window' = "none" /\ Load(file') = InMemory')
       /\ (on_closing /\ minimize_to_tray /\ last_save'.ok) =>
            (window' = "withdrawn" /\ Load(file') = InMemory')]_vars

\* C13: a step that changes the interval while the reminder runs leaves
\* next_reminder_time, the pending ticks and the countdown as they were; and
\* next_reminder_time changes only at a fire (or when the fire's sound warning is
\* dismissed) or at a start, to the clock plus max(1, interval) * 60 s for the
\* interval stored at that moment.
IntervalChangeWaitsForRecompute ==
    [][/\ (reminder_running /\ reminder_minutes_var' # reminder_minutes_var) =>
            UNCHANGED <<next_reminder_time, pending, countdown_label>>
       /\ (next_reminder_time' # next_reminder_time) =>
            /\ \/ fire_log'.count = fire_log.count + 1
               \/ in_warning' = in_warning - 1
               \/ (~reminder_running /\ reminder_running')
            /\ next_reminder_time' = now + Max(1, reminder_minutes_var) * 60 * Hz]_vars

\* Started with interval 1 in force, changed to 2 during the countdown: the fire
\* came 60 s after the start and the next one is scheduled 120 s after it.
WitnessIntervalChanged ==
    /\ reminder_running
    /\ fire_log.count = 1
    /\ fire_log.start_interval = 1
    /\ fire_log.sched = fire_log.start + 60 * Hz
    /\ reminder_minutes_var = 2
    /\ next_reminder_time = fire_log.at + 120 * Hz

\* C15: every step that sets next_reminder_time sets it at least 60 s after the
\* clock, whatever interval is stored, and no step of the timer writes the stored
\* interval: toggle_reminder and update_countdown leave it as loaded or as set.
ClampedAtUseNotStored ==
    [][/\ (next_reminder_time' # next_reminder_time) =>
            next_reminder_time' >= now + 60 * Hz
       /\ (toggle_reminder \/ update_countdown) =>
            reminder_minutes_var' = reminder_minutes_var]_vars

\* Started and fired with the loaded interval (0 or negative) still stored.
WitnessClampedAtUse ==
    /\ reminder_running
    /\ reminder_minutes_var <= 0
    /\ reminder_minutes_var = Load(file).interval
    /\ fire_log.count = 1
    /\ next_reminder_time = fire_log.at + 60 * Hz

\* C14: when playsound raises at a fire the warning is shown and the reminder keeps
\* running; when the warning is dismissed the bell rings, next_reminder_time is the
\* clock plus max(1, interval) * 60 s and a tick is scheduled one second on; and
\* whenever the reminder runs and no warning is open, a tick is pending.
SoundFailureKeepsLoop ==
    [][/\ (fire_log'.failures = fire_log.failures + 1) =>
            /\ last_dialog' = SOUND_WARNING
            /\ in_warning' = in_warning + 1
            /\ reminder_running'
       /\ (in_warning' = in_warning - 1) =>
            /\ fire_log'.alert = "bell"
            /\ reminder_running'
            /\ next_reminder_time' = now + Max(1, reminder_minutes_var) * 60 * Hz
            /\ pending' = Append(pending, now + Hz)
       /\ (reminder_running' /\ in_warning' = 0) => pending' # <<>>]_vars

\* Two fires in a row whose sound failed: the reminder fired again after a failure.
WitnessFiresAfterFailure ==
    /\ reminder_running
    /\ in_warning = 0
    /\ fire_log.count = 2
    /\ fire_log.failures = 2
    /\ fire_log.alert = "bell"
    /\ last_dialog = SOUND_WARNING

\* C17: at most one update_countdown callback is pending at any time.
AtMostOneTickPending == Len(pending) <= 1

\* C18: while the reminder is stopped a step (a tick being delivered) leaves
\* next_reminder_time, the countdown, the record of fires and the dialogs as they
\* were and schedules no tick; the countdown of a stopped reminder shows the idle
\* message; and two fires in a row never belong to the same next_reminder_time.
StoppedSilentAndFiresOnce ==
    [][/\ (~reminder_running /\ ~reminder_running') =>
            /\ UNCHANGED <<next_reminder_time, countdown_label, fire_log, last_dialog>>
            /\ Len(pending') <= Len(pending)
       /\ ~reminder_running' => countdown_label' = IdleText
       /\ (fire_log.count >= 1 /\ fire_log'.count = fire_log.count + 1) =>
            fire_log'.sched # fire_log.sched]_vars

\* C16: in the window, from the start on, the status text is that of
\* total_consumed and the bottle shown is the one rendered for total_consumed; a
\* declined reset changes none of the three and a confirmed reset leaves
\* total_consumed = 0.
DisplayFollowsTotal ==
    /\ [](window = "normal" =>
            /\ status_label = StatusText(total_consumed)
            /\ tk_bottle = FilledBottle(total_consumed, bottle_mask, empty_bottle))
    /\ [][/\ reset_consumption(FALSE) =>
               UNCHANGED <<total_consumed, status_label, tk_bottle>>
          /\ reset_consumption(TRUE) => total_consumed' = 0]_vars

\* A half-filled bottle after add_custom, add_150 and a reset dialog.
WitnessResetRendered ==
    /\ window = "normal"
    /\ last_dialog = RESET_QUESTION
    /\ total_consumed = 1500 + QUICK_ADD
    /\ FillHeight(total_consumed) = 1
    /\ tk_bottle # empty_bottle

\* C19: once the tray thread is through setup_tray_icon (and not inside a menu
\* callback), a hidden window has a tray icon.
HiddenWindowHasTrayIcon ==
    (window = "withdrawn" /\ tray_pc \in {"none", "running"}) => tray_icon = "icon"
====
